---- MODULE Spec2Model ----
(***************************************************************************)
(* A model of icza/minquery (the fork that returns hasMore): the query     *)
(* configuration object minQuery, its configuration methods, All(), the    *)
(* cursor codecs, and the MongoDB "find" command that All() sends.         *)
(*                                                                         *)
(* Strings whose characters the code inspects (sort and cursor field       *)
(* names: field[0], field[1:]) are sequences of lexemes: "-name" is        *)
(* <<"-", "name">>, "" is <<>>.  Cursor tokens are sequences of characters *)
(* too, so that "" is <<>> and the alphabet of every character is kept.    *)
(* Names of people are coded by their alphabetical rank, ObjectIds by      *)
(* their creation rank.                                                    *)
(***************************************************************************)
EXTENDS Integers, Sequences, FiniteSets, TLC

VARIABLES db, filter, sort, projection, limit, cursor, cursorCodec,
          cursorErr, min, testError, out, pages, pc

mqvars == <<filter, sort, projection, limit, cursor, cursorCodec,
            cursorErr, min, testError>>
vars == <<db, filter, sort, projection, limit, cursor, cursorCodec,
          cursorErr, min, testError, out, pages, pc>>

----------------------------------------------------------------------------
(* Bounds of the model *)

NumDocs == 3       \* documents in a generated collection
MaxLimit == 2      \* largest page size the callers of the model ask for
IntBits == 4       \* width of the machine integer (Go int), scaled down

MaxInt == 2 ^ (IntBits - 1) - 1
MinInt == 0 - 2 ^ (IntBits - 1)

\* Go's int arithmetic wraps around (two's complement).
WrapInt(n) == ((n - MinInt) % (2 ^ IntBits)) + MinInt

----------------------------------------------------------------------------
(* Values *)

\* A value held in an interface{}: its dynamic type t and its content v.
\* Names are coded by their alphabetical rank and ObjectIds by their order
\* of creation.  A time.Time is v milliseconds since the epoch plus sub
\* (a fraction of a millisecond, in units of Tick), with its location loc.
Val(t, v) == [t |-> t, v |-> v, sub |-> 0, loc |-> "-"]
Str(s) == Val("string", s)
Oid(n) == Val("oid", n)
IntV(n) == Val("int", n)
Date(ms, sub, loc) == [t |-> "time", v |-> ms, sub |-> sub, loc |-> loc]

\* The nil interface value: what doc[cf] yields for a key the document
\* lacks, and what MongoDB orders before every other value.
Nil == Val("null", 0)

\* The rank of a value among the values of its index field
Ord(value) == value.v

\* bson.D that may be the nil slice (mq.sort, mq.min)
NilD == [isNil |-> TRUE, d |-> <<>>]
MkD(s) == [isNil |-> FALSE, d |-> s]
DocElem(n, v) == [Name |-> n, Value |-> v]

F_name == <<"name">>
F_id == <<"_id">>
F_country == <<"country">>

User(id, name, country) ==
    (F_id :> Oid(id)) @@ (F_name :> Str(name)) @@ (F_country :> Str(country))

\* doc[cf] on a bson.M: the value, or nil when the key is absent
Lookup(doc, cf) == IF cf \in DOMAIN doc THEN doc[cf] ELSE Nil

\* Company of the tests: boos is a sub-document, subsidiary an array of
\* strings.  A path into them is written "boos.name", "subsidiary.0":
\* <<"boos", ".", "name">>, <<"subsidiary", ".", "0">>.
F_boosName == <<"boos", ".", "name">>
F_subsidiary0 == <<"subsidiary", ".", "0">>

Company(id, name, boos, subsidiary) ==
    (F_id :> Oid(id)) @@ (F_name :> Str(name))
    @@ (<<"boos">> :> Val("doc", boos))
    @@ (<<"subsidiary">> :> Val("array", subsidiary))

\* What MongoDB finds in a document under a field path: the field of that
\* name, or the field of a sub-document, or the member of an array at a
\* position; null when there is none.
PathValue(doc, path) ==
    IF path \in DOMAIN doc THEN doc[path]
    ELSE IF Len(path) = 3 /\ path[2] = "." /\ <<path[1]>> \in DOMAIN doc
    THEN LET outer == doc[<<path[1]>>]
             pos == IF path[3] = "0" THEN 1 ELSE 2
         IN  IF outer.t = "doc" THEN Lookup(outer.v, <<path[3]>>)
             ELSE IF outer.t = "array" /\ path[3] \in {"0", "1"}
                                      /\ pos <= Len(outer.v)
                  THEN outer.v[pos]
             ELSE Nil
    ELSE Nil

----------------------------------------------------------------------------
(* Cursor codecs: src/cursor.go and the testCodec of the tests *)

\* The range of an int32, as wide within the model's int as 32 bits are
\* within the 64 bits of a Go int
Int32Max == 2 ^ (IntBits - 2) - 1
Int32Min == 0 - 2 ^ (IntBits - 2)

\* WireValue writing every int in 32 bits
WireValue_Int32Only(value) ==
    IF value.t = "int"
    THEN Val("int32", ((value.v - Int32Min) % (2 ^ (IntBits - 1))) + Int32Min)
    ELSE IF value.t = "time" THEN Val("datetime", value.v)
    ELSE value

\* The BSON element a Go value is written as: an int that fits 32 bits as
\* int32, another int as int64; a time.Time as UTC datetime, the
\* milliseconds since the epoch (what is below a millisecond, and the
\* location, are not written).
WireValue(value) ==
    IF value.t = "int"
    THEN IF value.v >= Int32Min /\ value.v <= Int32Max
         THEN Val("int32", value.v) ELSE Val("int64", value.v)
    ELSE IF value.t = "time" THEN Val("datetime", value.v)
    ELSE value

\* The Go value a BSON element is read as into an interface{}: int32 as
\* int, int64 as int64, datetime as a time.Time in UTC.
GoValue(wire) ==
    IF wire.t = "int32" THEN IntV(wire.v)
    ELSE IF wire.t = "datetime" THEN Date(wire.v, 0, "UTC")
    ELSE wire

\* A serialized byte run is <<kind, name, value>>: the document header
\* (kind "doc", value = number of elements) or one element of the document.
HeaderBytes(n) == <<"doc", <<>>, n>>
ElemBytes(e) == <<"elem", e.Name, WireValue(e.Value)>>
JunkBytes == <<"junk", <<>>, Nil>>

\* bson.Marshal of a bson.D: the header followed by the elements in order.
Marshal(cursorData) ==
    <<HeaderBytes(Len(cursorData))>> \o
        [i \in 1..Len(cursorData) |-> ElemBytes(cursorData[i])]

\* bson.Unmarshal into a bson.D: fails unless the bytes are a header
\* followed by exactly the announced number of elements.
WellFormed(data) ==
    /\ Len(data) >= 1
    /\ data[1][1] = "doc"
    /\ data[1][3] = Len(data) - 1
    /\ \A i \in 2..Len(data) : data[i][1] = "elem"

Unmarshal(data) ==
    IF WellFormed(data)
    THEN [err |-> "nil",
          cursorData |-> MkD([i \in 1..(Len(data) - 1) |->
                                 DocElem(data[i + 1][2], GoValue(data[i + 1][3]))])]
    ELSE [err |-> "bson: corrupted document", cursorData |-> NilD]

\* A character of a token is <<class, bytes>>.  Class "b64" is a character
\* of the URL-safe base64 alphabet that is no hexadecimal digit, "hex" is a
\* hexadecimal digit (which is in the base64 alphabet as well), "newline"
\* is a carriage return or a line feed, "other" is any other character
\* (none of these two is in either alphabet).

\* Base64Encode with the padding character of base64.URLEncoding at the end
Base64Encode_Padded(data) ==
    Append([i \in 1..Len(data) |-> <<"b64", data[i]>>], <<"other", JunkBytes>>)

Base64Encode(data) == [i \in 1..Len(data) |-> <<"b64", data[i]>>]
HexEncode(data) == [i \in 1..Len(data) |-> <<"hex", data[i]>>]

\* base64.RawURLEncoding.DecodeString: carriage returns and line feeds are
\* ignored; an error on any other character outside the alphabet;
\* characters that were not produced by the base64 encoding of these bytes
\* decode to other bytes.
Base64Decode(c) ==
    LET chars == SelectSeq(c, LAMBDA ch : ch[1] # "newline")
    IN  IF \E i \in 1..Len(chars) : chars[i][1] \notin {"b64", "hex"}
        THEN [err |-> "base64: illegal data", data |-> <<>>]
        ELSE [err |-> "nil",
              data |-> [i \in 1..Len(chars) |->
                           IF chars[i][1] = "b64" THEN chars[i][2]
                           ELSE JunkBytes]]

\* hex.DecodeString
HexDecode(c) ==
    IF \E i \in 1..Len(c) : c[i][1] # "hex"
    THEN [err |-> "hex: invalid byte", data |-> <<>>]
    ELSE [err |-> "nil", data |-> [i \in 1..Len(c) |-> c[i][2]]]

DefaultCursorCodec == [kind |-> "cursorCodec", testError |-> FALSE]
TestCodec(e) == [kind |-> "testCodec", testError |-> e]

\* CursorCodec.CreateCursor
CreateCursor(cc, cursorData) ==
    IF cc.kind = "cursorCodec"
    THEN [cursor |-> Base64Encode(Marshal(cursorData)), err |-> "nil"]
    ELSE IF cc.testError
         THEN [cursor |-> <<>>, err |-> "testErrValue"]
         ELSE [cursor |-> HexEncode(Marshal(cursorData)), err |-> "nil"]

\* ParseCursor dropping the error of bson.Unmarshal
ParseCursor_DropsUnmarshalErr(cc, c) ==
    LET dec == IF cc.kind = "cursorCodec" THEN Base64Decode(c)
               ELSE HexDecode(c)
    IN  IF dec.err # "nil"
        THEN [cursorData |-> NilD, err |-> dec.err]
        ELSE [cursorData |-> Unmarshal(dec.data).cursorData, err |-> "nil"]

\* CursorCodec.ParseCursor
ParseCursor(cc, c) ==
    LET dec == IF cc.kind = "cursorCodec" THEN Base64Decode(c)
               ELSE HexDecode(c)
    IN  IF dec.err # "nil"
        THEN [cursorData |-> NilD, err |-> dec.err]
        ELSE Unmarshal(dec.data)

\* Tokens a caller may pass that no codec produced
InvalidToken == << <<"other", JunkBytes>> >>          \* "(INVALID)"
ValidBase64ButInvalidCursor == << <<"b64", JunkBytes>> >>
EmptyToken == <<>>
LineBreak == <<"newline", JunkBytes>>

----------------------------------------------------------------------------
(* The database: the MongoDB "find" command run by mq.db.Run *)

NilValue == [kind |-> "nil"]
\* bson.M{field: value}
FilterEq(f, v) == [kind |-> "eq", field |-> f, value |-> v]
\* bson.M{f: 1, ...} for the fields of fs
SelectFields(fs) == [kind |-> "fields", fields |-> fs]
\* a selector that is no document ("invalid-select-doc")
InvalidSelector == [kind |-> "invalid"]

\* bson.M{}
EmptyFilter == [kind |-> "all"]

Matches(doc, f) ==
    f.kind \in {"nil", "all"} \/ PathValue(doc, f.field) = f.value

\* An inclusion projection keeps the named fields and _id.
Project(doc, p) ==
    IF p.kind = "nil" THEN doc
    ELSE [k \in (DOMAIN doc) \cap (p.fields \cup {F_id}) |-> doc[k]]

\* The index key of a document under a key pattern (a sort specification)
KeyOf(doc, pattern) ==
    [i \in 1..Len(pattern) |-> Ord(PathValue(doc, pattern[i].Name))]

\* k1 comes strictly before k2 in the index with this key pattern
KeyBefore(k1, k2, pattern) ==
    \E i \in 1..Len(pattern) :
        /\ \A j \in 1..(i - 1) : k1[j] = k2[j]
        /\ IF pattern[i].Value = 1 THEN k1[i] < k2[i] ELSE k1[i] > k2[i]

\* The positions of docs in index order; equal keys keep the order of
\* insertion (the order of their record ids).
IndexOrder(docs, pattern) ==
    LET keys == [i \in 1..Len(docs) |-> KeyOf(docs[i], pattern)]
        before(i, j) ==
            \/ KeyBefore(keys[i], keys[j], pattern)
            \/ keys[i] = keys[j] /\ i < j
        rank(i) == Cardinality({j \in 1..Len(docs) : before(j, i)}) + 1
    IN  [r \in 1..Len(docs) |-> CHOOSE i \in 1..Len(docs) : rank(i) = r]

Sorted(docs, pattern) ==
    LET ord == IndexOrder(docs, pattern)
    IN  [r \in 1..Len(docs) |-> docs[ord[r]]]

Drop(s, n) == IF n >= Len(s) THEN <<>> ELSE SubSeq(s, n + 1, Len(s))
Take(s, n) == IF n >= Len(s) THEN s ELSE SubSeq(s, 1, n)

Has(cmd, k) == k \in DOMAIN cmd

\* The command is rejected: a selector that is no document, a negative
\* limit or batch size, or a min whose fields are not those of the index
\* the sort runs on.
Rejected(cmd) ==
    \/ Has(cmd, "projection") /\ cmd["projection"].kind = "invalid"
    \/ Has(cmd, "limit") /\ cmd["limit"] < 0
    \/ Has(cmd, "batchSize") /\ cmd["batchSize"] < 0
    \/ /\ Has(cmd, "min")
       /\ \/ ~Has(cmd, "sort")
          \/ [i \in 1..Len(cmd["min"]) |-> cmd["min"][i].Name]
                 # [i \in 1..Len(cmd["sort"]) |-> cmd["sort"][i].Name]

\* The documents of the scan, before limit: filter, index order, start at
\* the min index entry (inclusive), skip.
Scan(docs, cmd) ==
    LET f == IF Has(cmd, "filter") THEN cmd["filter"] ELSE NilValue
        pattern == IF Has(cmd, "sort") THEN cmd["sort"] ELSE <<>>
        matching == SelectSeq(docs, LAMBDA d : Matches(d, f))
        sorted == Sorted(matching, pattern)
        minKey == [i \in 1..Len(cmd["min"]) |-> Ord(cmd["min"][i].Value)]
        fromMin == IF Has(cmd, "min")
                   THEN SelectSeq(sorted,
                            LAMBDA d : ~KeyBefore(KeyOf(d, pattern), minKey, pattern))
                   ELSE sorted
    IN  Drop(fromMin, IF Has(cmd, "skip") THEN cmd["skip"] ELSE 0)

\* The first batch of the reply: at most limit documents (a limit of 0 is
\* no limit), none when the batch size asked for is 0, projected.
FirstBatch(docs, cmd) ==
    LET scan == Scan(docs, cmd)
        lim == IF Has(cmd, "limit") /\ cmd["limit"] > 0
               THEN Take(scan, cmd["limit"]) ELSE scan
        cut == IF Has(cmd, "batchSize") /\ cmd["batchSize"] = 0
               THEN <<>> ELSE lim
        p == IF Has(cmd, "projection") THEN cmd["projection"] ELSE NilValue
    IN  [i \in 1..Len(cut) |-> Project(cut[i], p)]

\* mq.db.Run(cmd, &res): the reply, or an error.  netOk is false when the
\* round trip itself fails.
Run(docs, cmd, netOk) ==
    IF ~netOk THEN [err |-> "network error", firstBatch |-> <<>>]
    ELSE IF Rejected(cmd) THEN [err |-> "command failed", firstBatch |-> <<>>]
    ELSE [err |-> "nil", firstBatch |-> FirstBatch(docs, cmd)]

----------------------------------------------------------------------------
(* minQuery: src/minquery.go *)

\* The fields of the receiver *minQuery
MQ == [filter |-> filter, sort |-> sort, projection |-> projection,
       limit |-> limit, cursor |-> cursor, cursorCodec |-> cursorCodec,
       cursorErr |-> cursorErr, min |-> min, testError |-> testError]

\* The loop of Sort: the bson.D built from the field strings
RECURSIVE SortSpec(_)
SortSpec(fields) ==
    IF fields = <<>> THEN <<>>
    ELSE LET field == Head(fields)
         IN  IF field = <<>> THEN SortSpec(Tail(fields))
             ELSE IF Head(field) = "+"
                  THEN <<DocElem(Tail(field), 1)>> \o SortSpec(Tail(fields))
             ELSE IF Head(field) = "-"
                  THEN <<DocElem(Tail(field), -1)>> \o SortSpec(Tail(fields))
             ELSE <<DocElem(field, 1)>> \o SortSpec(Tail(fields))

\* QueryLimit without the increment for the look-ahead document
QueryLimit_NoInc(mq) == mq.limit

\* queryLimit after "queryLimit++" (or the limit itself when not limited)
QueryLimit(mq) == IF mq.limit > 0 THEN WrapInt(mq.limit + 1) ELSE mq.limit

\* BuildCmd with the boundary document not skipped
BuildCmd_SkipZero(mq) ==
    ("find" :> "users") @@ ("singleBatch" :> TRUE)
    @@ (IF mq.limit > 0
        THEN ("limit" :> QueryLimit(mq)) @@ ("batchSize" :> QueryLimit(mq))
        ELSE <<>>)
    @@ (IF mq.filter.kind # "nil" THEN ("filter" :> mq.filter) ELSE <<>>)
    @@ (IF ~mq.sort.isNil THEN ("sort" :> mq.sort.d) ELSE <<>>)
    @@ (IF mq.projection.kind # "nil"
        THEN ("projection" :> mq.projection) ELSE <<>>)
    @@ (IF ~mq.min.isNil
        THEN ("skip" :> 0) @@ ("min" :> mq.min.d) ELSE <<>>)

\* BuildCmd leaving the projection out of the command
BuildCmd_NoProjection(mq) ==
    ("find" :> "users") @@ ("singleBatch" :> TRUE)
    @@ (IF mq.limit > 0
        THEN ("limit" :> QueryLimit(mq)) @@ ("batchSize" :> QueryLimit(mq))
        ELSE <<>>)
    @@ (IF mq.filter.kind # "nil" THEN ("filter" :> mq.filter) ELSE <<>>)
    @@ (IF ~mq.sort.isNil THEN ("sort" :> mq.sort.d) ELSE <<>>)
    @@ (IF ~mq.min.isNil
        THEN ("skip" :> 1) @@ ("min" :> mq.min.d) ELSE <<>>)

\* The find command All builds (lines 189-216)
BuildCmd(mq) ==
    ("find" :> "users") @@ ("singleBatch" :> TRUE)
    @@ (IF mq.limit > 0
        THEN ("limit" :> QueryLimit(mq)) @@ ("batchSize" :> QueryLimit(mq))
        ELSE <<>>)
    @@ (IF mq.filter.kind # "nil" THEN ("filter" :> mq.filter) ELSE <<>>)
    @@ (IF ~mq.sort.isNil THEN ("sort" :> mq.sort.d) ELSE <<>>)
    @@ (IF mq.projection.kind # "nil"
        THEN ("projection" :> mq.projection) ELSE <<>>)
    @@ (IF ~mq.min.isNil
        THEN ("skip" :> 1) @@ ("min" :> mq.min.d) ELSE <<>>)

\* HasMore comparing with the limit instead of the limit plus one
HasMore_FullPage(mq, firstBatch) ==
    /\ Len(firstBatch) > 0
    /\ mq.limit > 0
    /\ Len(firstBatch) >= mq.limit

\* HasMore comparing with > instead of >=
HasMore_Strict(mq, firstBatch) ==
    /\ Len(firstBatch) > 0
    /\ mq.limit > 0
    /\ Len(firstBatch) > QueryLimit(mq)

\* HasMore without the test for a limited query
HasMore_Unlimited(mq, firstBatch) ==
    /\ Len(firstBatch) > 0
    /\ Len(firstBatch) >= QueryLimit(mq)

\* hasMore = (limitedQuery && len(firstBatch) >= queryLimit)
HasMore(mq, firstBatch) ==
    /\ Len(firstBatch) > 0
    /\ mq.limit > 0
    /\ Len(firstBatch) >= QueryLimit(mq)

\* StripField leaving the direction in the name
StripField_Keep(cfd) == cfd

\* The name doc[cf] is looked up with: a leading '-' or '+' removed
StripField(cfd) ==
    IF Head(cfd) = "-" \/ Head(cfd) = "+" THEN Tail(cfd) ELSE cfd

\* cursorData built from the document and the cursor fields (lines 251-258)
CursorData(doc, cursorFields) ==
    [i \in 1..Len(cursorFields) |->
        DocElem(StripField(cursorFields[i]),
                Lookup(doc, StripField(cursorFields[i])))]

\* CursorDocIndex ignoring the look-ahead offset
CursorDocIndex_Last(mq, firstBatch) == Len(firstBatch)

\* The 1-based position in firstBatch of the document the cursor is made
\* from: firstBatch[len(firstBatch) - 1 - offset]
CursorDocIndex(mq, firstBatch) ==
    Len(firstBatch) - (IF HasMore(mq, firstBatch) THEN 1 ELSE 0)

\* AllButLast keeping the last document
AllButLast_Keep(firstBatch) == firstBatch

\* allButLast: every document of the iterator but the last one
AllButLast(firstBatch) ==
    IF Len(firstBatch) > 0
    THEN SubSeq(firstBatch, 1, Len(firstBatch) - 1)
    ELSE <<>>

\* IterAll losing the last document
IterAll_ButLast(firstBatch) == Take(firstBatch, Len(firstBatch) - 1)

\* mgo.Iter.All: every document of the iterator
IterAll(firstBatch) == firstBatch

NoCmd == <<>>

\* What a call of All leaves behind: the three results, the caller's
\* container before and after, what went to the database (sent, cmd, the
\* number of commands run and whether the database could be reached) and
\* what went to the codec (the number of CreateCursor calls and the entry
\* passed to the last one).
Outcome(cf, prev, res, cur, err, more, sent, cmd, batch) ==
    [called |-> TRUE, cursorFields |-> cf, prev |-> prev, result |-> res,
     cursor |-> cur, err |-> err, hasMore |-> more, sent |-> sent,
     cmd |-> cmd, firstBatch |-> batch, runs |-> IF sent THEN 1 ELSE 0,
     netOk |-> TRUE, encodes |-> 0, cursorData |-> <<>>]

NoCall == [called |-> FALSE, cursorFields |-> <<>>, prev |-> <<>>,
           result |-> <<>>, cursor |-> <<>>, err |-> "nil",
           hasMore |-> FALSE, sent |-> FALSE, cmd |-> NoCmd,
           firstBatch |-> <<>>, runs |-> 0, netOk |-> TRUE, encodes |-> 0,
           cursorData |-> <<>>]

\* EmptyBatchCursor returning the token of the boundary the query holds
EmptyBatchCursor_Boundary(mq) ==
    IF mq.min.isNil THEN <<>>
    ELSE CreateCursor(mq.cursorCodec, mq.min.d).cursor

\* EmptyBatchCursor returning no cursor
EmptyBatchCursor_Blank(mq) == <<>>

\* The cursor All returns for an empty batch (line 268)
EmptyBatchCursor(mq) == mq.cursor

\* OnEncodeError with the documents unmarshalled before the cursor is made
OnEncodeError_Decoded(prev, decoded) == decoded

\* The caller's container when All returns the error of CreateCursor: the
\* return of line 261 comes before the documents are unmarshalled into it
\* (line 272 on).
OnEncodeError(prev, decoded) == prev

\* RunFailed never seeing an error
RunFailed_Unchecked(res) == FALSE

\* if err = mq.db.Run(cmd, &res); err != nil
RunFailed(res) == res.err # "nil"

\* SetSlice adding the documents after what the slice held
SetSlice_Appends(prev, docs) == prev \o docs

\* What allButLast and mgo.Iter.All set the caller's slice to: the slice is
\* stretched to its capacity (line 153), the documents are decoded into
\* its elements from index 0 on, elements being appended once the slice
\* is full (lines 156 to 170), and the slice is cut at the number of
\* documents kept (lines 171 to 175).
SetSlice(prev, docs) ==
    LET n == IF Len(prev) > Len(docs) THEN Len(prev) ELSE Len(docs)
        slicev == [i \in 1..n |-> IF i <= Len(docs) THEN docs[i] ELSE prev[i]]
    IN  SubSeq(slicev, 1, Len(docs))

\* minQuery.All from line 229 on, res being what Run has answered to cmd:
\* the cursor, the caller's container.
AllReply(mq, prev, cursorFields, netOk, cmd, res) ==
    LET firstBatch == res.firstBatch
        hasMore == HasMore(mq, firstBatch)
        idx == CursorDocIndex(mq, firstBatch)
        cursorData == CursorData(firstBatch[idx], cursorFields)
        made == CreateCursor(mq.cursorCodec, cursorData)
        decoded == SetSlice(prev, IF hasMore THEN AllButLast(firstBatch)
                                  ELSE IterAll(firstBatch))
        Ret(r, cur, err, more) ==
            [Outcome(cursorFields, prev, r, cur, err, more, TRUE, cmd,
                     firstBatch) EXCEPT !.netOk = netOk]
        Encoded(o) == [o EXCEPT !.encodes = 1, !.cursorData = cursorData]
    IN  IF RunFailed(res) THEN Ret(prev, <<>>, res.err, FALSE)
        ELSE IF Len(firstBatch) = 0
             THEN Ret(decoded, EmptyBatchCursor(mq), "nil", hasMore)
        ELSE IF Len(cursorFields) = 0
             THEN Ret(decoded, <<>>, "nil", hasMore)
        ELSE IF idx < 1
             THEN Ret(prev, <<>>, "panic: index out of range", hasMore)
        ELSE IF mq.testError
             THEN Ret(prev, <<>>, "testErrValue", hasMore)
        ELSE IF \E i \in 1..Len(cursorFields) : cursorFields[i] = <<>>
             THEN Ret(prev, <<>>, "panic: index out of range", hasMore)
        ELSE IF made.err # "nil"
             THEN Encoded(Ret(OnEncodeError(prev, decoded), made.cursor,
                              made.err, hasMore))
        ELSE Encoded(Ret(decoded, made.cursor, "nil", hasMore))

\* AllQuery handing the input cursor back when no cursor fields are given
AllQuery_InputCursor(docs, mq, prev, cursorFields, netOk) ==
    IF Len(cursorFields) = 0 /\ Run(docs, BuildCmd(mq), netOk).err = "nil"
    THEN [AllReply(mq, prev, cursorFields, netOk, BuildCmd(mq),
                   Run(docs, BuildCmd(mq), netOk)) EXCEPT !.cursor = mq.cursor]
    ELSE AllReply(mq, prev, cursorFields, netOk, BuildCmd(mq),
                  Run(docs, BuildCmd(mq), netOk))

\* AllQuery running the command a second time when the first run fails
AllQuery_Retries(docs, mq, prev, cursorFields, netOk) ==
    IF Run(docs, BuildCmd(mq), netOk).err # "nil"
    THEN [AllReply(mq, prev, cursorFields, netOk, BuildCmd(mq),
                   Run(docs, BuildCmd(mq), TRUE)) EXCEPT !.runs = 2]
    ELSE AllReply(mq, prev, cursorFields, netOk, BuildCmd(mq),
                  Run(docs, BuildCmd(mq), netOk))

\* minQuery.All from line 186 on: the command is built and run, and its
\* reply handled.
AllQuery(docs, mq, prev, cursorFields, netOk) ==
    AllReply(mq, prev, cursorFields, netOk, BuildCmd(mq),
             Run(docs, BuildCmd(mq), netOk))

\* AllCall without the test of the deferred cursor error
AllCall_NoErrCheck(docs, mq, prev, cursorFields, netOk) ==
    AllQuery(docs, mq, prev, cursorFields, netOk)

\* minQuery.All(result, cursorFields...) on the collection docs, with the
\* container holding prev: a deferred cursor error ends it at once.
AllCall(docs, mq, prev, cursorFields, netOk) ==
    IF mq.cursorErr # "nil"
    THEN [Outcome(cursorFields, prev, prev, <<>>, mq.cursorErr, FALSE,
                  FALSE, NoCmd, <<>>) EXCEPT !.netOk = netOk]
    ELSE AllQuery(docs, mq, prev, cursorFields, netOk)

----------------------------------------------------------------------------
(* The configuration methods and All as actions on the query object *)

\* Sort adding to the sort specification it finds
Sort_Appends(fields) ==
    /\ sort' = MkD(sort.d \o SortSpec(fields))
    /\ out' = NoCall
    /\ UNCHANGED <<db, filter, projection, limit, cursor, cursorCodec,
                   cursorErr, min, testError>>

\* Sort(fields ...string)
Sort(fields) ==
    /\ sort' = MkD(SortSpec(fields))
    /\ out' = NoCall
    /\ UNCHANGED <<db, filter, projection, limit, cursor, cursorCodec,
                   cursorErr, min, testError>>

\* Select(selector)
Select(selector) ==
    /\ projection' = selector
    /\ out' = NoCall
    /\ UNCHANGED <<db, filter, sort, limit, cursor, cursorCodec, cursorErr,
                   min, testError>>

\* Limit starting the listing over: the cursor is dropped with the old limit
Limit_DropsCursor(n) ==
    /\ limit' = n
    /\ cursor' = <<>>
    /\ min' = NilD
    /\ cursorErr' = "nil"
    /\ out' = NoCall
    /\ UNCHANGED <<db, filter, sort, projection, cursorCodec, testError>>

\* Limit(n)
Limit(n) ==
    /\ limit' = n
    /\ out' = NoCall
    /\ UNCHANGED <<db, filter, sort, projection, cursor, cursorCodec,
                   cursorErr, min, testError>>

\* ParsedCursor leaving boundary and error alone for the empty token
ParsedCursor_KeepOld(cc, c) ==
    IF c # <<>> THEN ParseCursor(cc, c)
    ELSE [cursorData |-> min, err |-> cursorErr]

\* What Cursor(c) stores in mq.min and mq.cursorErr
ParsedCursor(cc, c) ==
    IF c # <<>> THEN ParseCursor(cc, c)
    ELSE [cursorData |-> NilD, err |-> "nil"]

\* Cursor(c)
Cursor(c) ==
    /\ cursor' = c
    /\ min' = ParsedCursor(cursorCodec, c).cursorData
    /\ cursorErr' = ParsedCursor(cursorCodec, c).err
    /\ out' = NoCall
    /\ UNCHANGED <<db, filter, sort, projection, limit, cursorCodec,
                   testError>>

\* CursorCodec parsing the stored token again with the new codec
CursorCodec_Reparses(cc) ==
    /\ cursorCodec' = cc
    /\ min' = ParsedCursor(cc, cursor).cursorData
    /\ cursorErr' = ParsedCursor(cc, cursor).err
    /\ out' = NoCall
    /\ UNCHANGED <<db, filter, sort, projection, limit, cursor, testError>>

\* CursorCodec(cc)
CursorCodec(cc) ==
    /\ cursorCodec' = cc
    /\ out' = NoCall
    /\ UNCHANGED <<db, filter, sort, projection, limit, cursor, cursorErr,
                   min, testError>>

\* All handing the deferred cursor error out once and clearing it
All_ConsumesErr(prev, cursorFields, netOk) ==
    /\ out' = AllCall(db, MQ, prev, cursorFields, netOk)
    /\ cursorErr' = "nil"
    /\ UNCHANGED <<db, filter, sort, projection, limit, cursor, cursorCodec,
                   min, testError>>

\* All remembering the cursor it returns as the query's own
All_StoresCursor(prev, cursorFields, netOk) ==
    /\ out' = AllCall(db, MQ, prev, cursorFields, netOk)
    /\ cursor' = out'.cursor
    /\ min' = ParsedCursor(cursorCodec, out'.cursor).cursorData
    /\ cursorErr' = ParsedCursor(cursorCodec, out'.cursor).err
    /\ UNCHANGED <<db, filter, sort, projection, limit, cursorCodec,
                   testError>>

\* All(result, cursorFields...): the query object is only read
All(prev, cursorFields, netOk) ==
    /\ out' = AllCall(db, MQ, prev, cursorFields, netOk)
    /\ UNCHANGED <<db, filter, sort, projection, limit, cursor, cursorCodec,
                   cursorErr, min, testError>>

\* New(db, coll, query)
New(docs, query) ==
    /\ db = docs
    /\ filter = query
    /\ sort = NilD
    /\ projection = NilValue
    /\ limit = 0
    /\ cursor = <<>>
    /\ cursorCodec = DefaultCursorCodec
    /\ cursorErr = "nil"
    /\ min = NilD
    /\ testError = FALSE
    /\ out = NoCall

----------------------------------------------------------------------------
(* Inputs *)

\* The people of a generated collection: two names, and someone the
\* country filter leaves out.
People == { <<1, "US">>, <<2, "US">>, <<1, "UK">> }

\* The collections of NumDocs users, inserted in the order of their ids
Databases ==
    { [i \in 1..NumDocs |-> User(i, who[i][1], who[i][2])] :
        who \in [1..NumDocs -> People] }

Filters == {NilValue, FilterEq(F_country, Str("US"))}

SortInputs == { <<F_name, F_id>>, <<F_name, <<"-", "_id">>>>, <<F_name>> }

CursorFieldInputs == { <<>>, <<F_name, F_id>>, <<F_name>> }

Limits == (-1)..MaxLimit

\* What the caller's slice may hold before the call
Containers == { <<>>, <<User(0, 0, "US"), User(0, 0, "US")>> }

\* The tokens a caller may hold: the ones the default codec makes for the
\* documents of the collection, and strings no codec made.
KnownTokens(docs) ==
    { CreateCursor(DefaultCursorCodec, CursorData(docs[i], cf)).cursor :
        i \in 1..Len(docs), cf \in CursorFieldInputs \ {<<>>} }
    \cup {EmptyToken, InvalidToken, ValidBase64ButInvalidCursor}

----------------------------------------------------------------------------
(* Specification: any caller of one query object *)

Init ==
    /\ \E docs \in Databases, query \in Filters :
          /\ query.kind = "nil" =>
                 \A i \in 1..Len(docs) : docs[i][F_country] = Str("US")
          /\ New(docs, query)
    /\ pages = <<>>
    /\ pc = "free"

DoSort == \E fields \in SortInputs : Sort(fields) /\ UNCHANGED <<pages, pc>>

DoLimit == \E n \in Limits : Limit(n) /\ UNCHANGED <<pages, pc>>

DoCursor == \E c \in KnownTokens(db) : Cursor(c) /\ UNCHANGED <<pages, pc>>

DoAll ==
    \E prev \in Containers, cf \in CursorFieldInputs :
        All(prev, cf, TRUE) /\ UNCHANGED <<pages, pc>>

Next == DoSort \/ DoLimit \/ DoCursor \/ DoAll

Spec == Init /\ [][Next]_vars

----------------------------------------------------------------------------
(* Specification: the paging loop of the tests and of the README.          *)
(* mq := New(...).Sort(...).Limit(n); cursor, err, hasMore := mq.All(...); *)
(* then mq.Cursor(cursor).All(...) again and again, the cursor fields      *)
(* being the sort fields and the same slice being passed every time.       *)
(* pages records what every call of All left behind.                       *)

\* The users of TestMinQuery: Aaron, Alice, Alice, Chloe, Dakota, Ed, Fae,
\* Glan; all but Aaron in the US.
TestUsers ==
    << User(1, 1, "UK"), User(2, 2, "US"), User(3, 2, "US"),
       User(4, 3, "US"), User(5, 4, "US"), User(6, 5, "US"),
       User(7, 6, "US"), User(8, 7, "US") >>

\* Limit(3) of TestMinQuery
TestLimit == 3

PagingLimits == Limits \cup {TestLimit}

\* The cursor fields of the loop: the names of the sort fields
SortFieldNames == [i \in 1..Len(sort.d) |-> sort.d[i].Name]

\* The calls of All the loop is followed for
MaxCalls == Len(db) + 2

InitPaging ==
    /\ \/ \E docs \in Databases, query \in Filters :
             /\ query.kind = "nil" =>
                    \A i \in 1..Len(docs) : docs[i][F_country] = Str("US")
             /\ New(docs, query)
       \/ New(TestUsers, FilterEq(F_country, Str("US")))
    /\ pages = <<>>
    /\ pc = "new"

PagerSort ==
    /\ pc = "new"
    /\ \E fields \in SortInputs : Sort(fields)
    /\ pc' = "sorted"
    /\ UNCHANGED pages

PagerLimit ==
    /\ pc = "sorted"
    /\ \E n \in PagingLimits : Limit(n)
    /\ pc' = "ready"
    /\ UNCHANGED pages

PagerAll ==
    /\ pc = "ready"
    /\ Len(pages) < MaxCalls
    /\ All(IF pages = <<>> THEN <<>> ELSE pages[Len(pages)].result,
           SortFieldNames, TRUE)
    /\ pages' = Append(pages, out')
    /\ pc' = "got"

PagerCursor ==
    /\ pc = "got"
    /\ out.err = "nil"
    /\ Cursor(out.cursor)
    /\ pc' = "ready"
    /\ UNCHANGED pages

NextPaging == PagerSort \/ PagerLimit \/ PagerAll \/ PagerCursor

SpecPaging == InitPaging /\ [][NextPaging]_vars

----------------------------------------------------------------------------
(* Specification: the paging loop with a projection, as in                *)
(* mq.Sort(...).Select(bson.M{"name": 1, "_id": 1}).Limit(2).All(...):     *)
(* Select may be called after Sort, before the limit is set.              *)

\* Projections that keep the cursor fields (_id is kept unless excluded)
\* and one that drops name
PagingSelectors ==
    { SelectFields({F_name, F_id}), SelectFields({F_name}),
      SelectFields({F_country}) }

PagerSelect ==
    /\ pc = "sorted"
    /\ \E selector \in PagingSelectors : Select(selector)
    /\ UNCHANGED <<pages, pc>>

InitProjection ==
    /\ New(TestUsers, FilterEq(F_country, Str("US")))
    /\ pages = <<>>
    /\ pc = "new"

NextProjection == NextPaging \/ PagerSelect

SpecProjection == InitProjection /\ [][NextProjection]_vars

----------------------------------------------------------------------------
(* Specification: the paging loop over the companies of                   *)
(* TestMinQuerySubDocIndex and TestMinQueryArrayMemberIndex, sorted by    *)
(* paths into the sub-document and the array: mq := New(db, "company",    *)
(* bson.M{}).Sort(...).Limit(3), then All and Cursor(cursor).All again    *)
(* and again, the cursor fields being the sort fields.                    *)

\* amazon, apple, facebook, google, honer, videos, zMind with the bosses
\* Dakota, Fae, Chloe, Aaron, Ed, Glan, len and no subsidiaries
SubDocCompanies ==
    << Company(8, 1, User(1, 3, "US"), <<>>),
       Company(9, 2, User(2, 5, "US"), <<>>),
       Company(10, 3, User(3, 2, "UK"), <<>>),
       Company(11, 4, User(4, 1, "UK"), <<>>),
       Company(12, 5, User(5, 4, "US"), <<>>),
       Company(13, 6, User(6, 6, "US"), <<>>),
       Company(14, 7, User(7, 7, "US"), <<>>) >>

\* amazon .. videos with the subsidiaries (ama, zon), (app, le),
\* (face, book), (goo, gle), (hon, er), (video, s)
ArrayCompanies ==
    << Company(7, 1, User(1, 0, ""), <<Str(1), Str(12)>>),
       Company(8, 2, User(2, 0, ""), <<Str(2), Str(10)>>),
       Company(9, 3, User(3, 0, ""), <<Str(3), Str(7)>>),
       Company(10, 4, User(4, 0, ""), <<Str(5), Str(8)>>),
       Company(11, 5, User(5, 0, ""), <<Str(9), Str(4)>>),
       Company(12, 6, User(6, 0, ""), <<Str(11), Str(6)>>) >>

NestedSortInputs == { <<F_name, F_boosName>>, <<F_subsidiary0>>, <<F_boosName>> }

InitNested ==
    /\ \E docs \in {SubDocCompanies, ArrayCompanies} : New(docs, EmptyFilter)
    /\ pages = <<>>
    /\ pc = "new"

NestedSort ==
    /\ pc = "new"
    /\ \E fields \in NestedSortInputs : Sort(fields)
    /\ pc' = "sorted"
    /\ UNCHANGED pages

NextNested == NestedSort \/ PagerLimit \/ PagerAll \/ PagerCursor

SpecNested == InitNested /\ [][NextNested]_vars


----------------------------------------------------------------------------
(* Specification: a caller of one query object who uses every             *)
(* configuration method, with codecs that may fail and a database that    *)
(* may be out of reach.                                                   *)

\* mq.(*minQuery).testError = b, as the test does
SetTestError(b) ==
    /\ testError' = b
    /\ out' = NoCall
    /\ UNCHANGED <<db, filter, sort, projection, limit, cursor, cursorCodec,
                   cursorErr, min>>

\* The second Alice and Chloe of the users of the test
ConfigUsers == SubSeq(TestUsers, 3, 4)

ConfigSorts == { <<F_name, F_id>>, <<F_name>> }

ConfigSelectors == {NilValue, SelectFields({F_country}), InvalidSelector}

ConfigLimits == {0, 1, MaxLimit}

Codecs == {DefaultCursorCodec, TestCodec(FALSE), TestCodec(TRUE)}

\* Cursor fields as the caller may write them, with or without direction,
\* and with an empty string as Sort accepts it
ConfigCursorFields ==
    { <<>>, <<F_name, F_id>>, << <<"-", "name">>, <<"+", "_id">> >>,
      <<F_name, <<>>>> }

\* Tokens of either codec for the users' index entries, and strings no
\* codec made
ConfigTokens ==
    { CreateCursor(cc, CursorData(ConfigUsers[i], <<F_name, F_id>>)).cursor :
        i \in 1..Len(ConfigUsers), cc \in {DefaultCursorCodec, TestCodec(FALSE)} }
    \cup {EmptyToken, InvalidToken}

InitConfig ==
    /\ New(ConfigUsers, FilterEq(F_country, Str("US")))
    /\ pages = <<>>
    /\ pc = "free"

CfgSort == \E fields \in ConfigSorts : Sort(fields) /\ UNCHANGED <<pages, pc>>

CfgSelect ==
    \E selector \in ConfigSelectors : Select(selector) /\ UNCHANGED <<pages, pc>>

CfgLimit == \E n \in ConfigLimits : Limit(n) /\ UNCHANGED <<pages, pc>>

CfgCursor == \E c \in ConfigTokens : Cursor(c) /\ UNCHANGED <<pages, pc>>

CfgCodec == \E cc \in Codecs : CursorCodec(cc) /\ UNCHANGED <<pages, pc>>

CfgTestError == \E b \in BOOLEAN : SetTestError(b) /\ UNCHANGED <<pages, pc>>

CfgAll ==
    \E prev \in Containers, cf \in ConfigCursorFields, netOk \in BOOLEAN :
        All(prev, cf, netOk) /\ UNCHANGED <<pages, pc>>

NextConfig ==
    CfgSort \/ CfgSelect \/ CfgLimit \/ CfgCursor \/ CfgCodec
        \/ CfgTestError \/ CfgAll

SpecConfig == InitConfig /\ [][NextConfig]_vars
----------------------------------------------------------------------------
(* Specification: a codec used on its own, as TestDefaultCodec does:      *)
(* cursor, err := cc.CreateCursor(cd); cc.ParseCursor(cursor); and        *)
(* cc.ParseCursor of strings no codec made.  pages holds what went into   *)
(* and came out of CreateCursor; cursor, min and cursorErr hold what went *)
(* into and came out of ParseCursor.                                      *)

MaxEntryLen == 2

\* An int within 32 bits and one beyond; a string; a time of whole
\* milliseconds in UTC, the same in the local zone, and one with a
\* fraction of a millisecond.
EntryValues ==
    { IntV(1), IntV(Int32Max + 1), Str(2),
      Date(3, 0, "UTC"), Date(3, 0, "Local"), Date(3, 1, "UTC") }

\* The entries of at most MaxEntryLen fields named a, b or c
Entries ==
    LET elems == { DocElem(n, v) :
                     n \in { <<"a">>, <<"b">>, <<"c">> }, v \in EntryValues }
    IN  UNION { [1..n -> elems] : n \in 0..MaxEntryLen }

\* Strings given to ParseCursor: tokens of either codec, the same with a
\* line break at the end or in front, and strings that are no tokens.
TokenInputs ==
    LET made == { CreateCursor(cc, <<DocElem(<<"a">>, IntV(1))>>).cursor :
                    cc \in {DefaultCursorCodec, TestCodec(FALSE)} }
    IN  made
        \cup { Append(c, LineBreak) : c \in made }
        \cup { <<LineBreak>> \o c : c \in made }
        \cup { EmptyToken, InvalidToken, ValidBase64ButInvalidCursor,
               <<LineBreak>>,
               <<ValidBase64ButInvalidCursor[1], InvalidToken[1]>> }

\* cc := cursorCodec{} or testCodec{}
PickCodec(cc) ==
    /\ pc = "codec"
    /\ CursorCodec(cc)
    /\ UNCHANGED <<pages, pc>>

\* cursor, err := cc.CreateCursor(cd)
Encode(cd) ==
    /\ pc = "codec"
    /\ pages' = <<[NoCall EXCEPT
                     !.called = TRUE, !.encodes = 1, !.cursorData = cd,
                     !.cursor = CreateCursor(cursorCodec, cd).cursor,
                     !.err = CreateCursor(cursorCodec, cd).err]>>
    /\ pc' = "encoded"
    /\ UNCHANGED <<db, filter, sort, projection, limit, cursor, cursorCodec,
                   cursorErr, min, testError, out>>

\* cursorData, err := cc.ParseCursor(c)
Parse(c, to) ==
    /\ cursor' = c
    /\ min' = ParseCursor(cursorCodec, c).cursorData
    /\ cursorErr' = ParseCursor(cursorCodec, c).err
    /\ pc' = to
    /\ UNCHANGED <<db, filter, sort, projection, limit, cursorCodec,
                   testError, out, pages>>

\* cc.ParseCursor(cursor) of the cursor just created
Decode == pc = "encoded" /\ Parse(pages[1].cursor, "decoded")

\* cc.ParseCursor of any string
ParseAny == pc = "codec" /\ \E c \in TokenInputs : Parse(c, "parsed")

InitCodec ==
    /\ New(<<>>, NilValue)
    /\ pages = <<>>
    /\ pc = "codec"

NextCodec ==
    \/ \E cc \in {DefaultCursorCodec, TestCodec(FALSE)} : PickCodec(cc)
    \/ \E cd \in Entries : Encode(cd)
    \/ Decode
    \/ ParseAny

SpecCodec == InitCodec /\ [][NextCodec]_vars
----------------------------------------------------------------------------
(* Specification: a caller who sets the sort again and again, the limit   *)
(* being set in between.  pages holds the arguments of the last call of   *)
(* Sort.                                                                  *)

MaxSortArgs == 2

\* "", name, +name, -name, _id, +_id, -_id, --name, and the bare signs
SortFieldInputs ==
    { <<>>, F_name, <<"+", "name">>, <<"-", "name">>, F_id, <<"+", "_id">>,
      <<"-", "_id">>, <<"-", "-", "name">>, <<"+">>, <<"-">> }

SortArgs == UNION { [1..n -> SortFieldInputs] : n \in 0..MaxSortArgs }

SortCall ==
    \E fields \in SortArgs :
        /\ Sort(fields)
        /\ pages' = <<fields>>
        /\ pc' = "sorted"

LimitCall == \E n \in {0, 1} : Limit(n) /\ UNCHANGED <<pages, pc>>

InitSort ==
    /\ New(TestUsers, NilValue)
    /\ pages = <<>>
    /\ pc = "new"

NextSort == SortCall \/ LimitCall

SpecSort == InitSort /\ [][NextSort]_vars



----------------------------------------------------------------------------
(* Properties *)

Min2(a, b) == IF a <= b THEN a ELSE b
Last(s) == s[Len(s)]
Range(s) == { s[i] : i \in 1..Len(s) }

\* The filtered, sorted result set of the configured query
Expected == Sorted(SelectSeq(db, LAMBDA d : Matches(d, filter)), sort.d)

\* No two documents of the result set have the same index entry
UniqueKeys ==
    LET expected == Expected
    IN  \A i, j \in 1..Len(expected) :
            i # j => KeyOf(expected[i], sort.d) # KeyOf(expected[j], sort.d)

\* The k-th page of size L of the result set
PageOf(k, L) == SubSeq(Expected, (k - 1) * L + 1, Min2(k * L, Len(Expected)))

\* The loop has not seen hasMore = false before its k-th call
StillPaging(k) == \A j \in 1..(k - 1) : pages[j].hasMore

\* The pages of the loop, up to the first one with hasMore = false, are the
\* result set cut into pieces of limit documents.
Paginated ==
    \A k \in 1..Len(pages) :
        StillPaging(k) =>
            /\ pages[k].err = "nil"
            /\ pages[k].result = PageOf(k, limit)
            /\ ~pages[k].hasMore => k * limit >= Len(Expected)

RankOf(doc) == CHOOSE i \in 1..Len(Expected) : Expected[i] = doc

\* Page k of the loop starts right after the last document of page k - 1.
ResumesAfter(k) ==
    LET last == Last(pages[k - 1].result)
        page == pages[k]
    IN  /\ page.err = "nil"
        /\ last \notin Range(page.result)
        /\ RankOf(last) < Len(Expected) =>
               /\ page.result # <<>>
               /\ page.result[1] = Expected[RankOf(last) + 1]
        /\ RankOf(last) = Len(Expected) => page.result = <<>>

\* The command of page k seeks to the index entry of the last document of
\* page k - 1 and skips one document.
SeeksAndSkipsOne(k) ==
    LET last == Last(pages[k - 1].result)
        page == pages[k]
    IN  /\ page.sent
        /\ Has(page.cmd, "skip") /\ page.cmd["skip"] = 1
        /\ Has(page.cmd, "min")
        /\ page.cmd["min"] = CursorData(last, page.cursorFields)

Remaining ==
    IF min.isNil THEN Expected
    ELSE LET minKey == [i \in 1..Len(min.d) |-> Ord(min.d[i].Value)]
         IN  Drop(SelectSeq(Expected,
                      LAMBDA d : ~KeyBefore(KeyOf(d, sort.d), minKey, sort.d)),
                  1)

Succeeded == out.called /\ out.err = "nil"

\* C3: for Limit(L), L > 0, a successful All returns hasMore = true exactly
\* when more than L matching documents remain after the seek boundary; when
\* exactly L remain the batch has L documents and hasMore is false.
C3_HasMoreCorrect ==
    (Succeeded /\ limit > 0) =>
        /\ out.hasMore <=> Len(Remaining) > limit
        /\ Len(Remaining) = limit =>
               Len(out.firstBatch) = limit /\ Len(out.result) = limit

\* A call behind a boundary with exactly limit documents remaining.
C3_Witness ==
    /\ Succeeded /\ limit > 0 /\ ~min.isNil
    /\ Len(Remaining) = limit
    /\ ~out.hasMore

C5_CursorFromLastReturned ==
    (Succeeded /\ out.firstBatch # <<>> /\ out.cursorFields # <<>>) =>
        /\ out.result # <<>>
        /\ ParseCursor(cursorCodec, out.cursor) =
               [err |-> "nil",
                cursorData |-> MkD(CursorData(Last(out.result), out.cursorFields))]
        /\ Last(out.result) =
               out.firstBatch[IF out.hasMore THEN Len(out.firstBatch) - 1
                              ELSE Len(out.firstBatch)]

\* A batch whose look-ahead document has another index entry than the
\* document before it.
C5_Witness ==
    /\ Succeeded /\ out.hasMore /\ out.cursorFields # <<>>
    /\ CursorData(Last(out.firstBatch), out.cursorFields)
           # CursorData(Last(out.result), out.cursorFields)

\* Call k of the loop succeeded with an empty batch
Exhausted(k) == pages[k].err = "nil" /\ pages[k].firstBatch = <<>>

\* C6: All executed with a cursor after which no matching document remains
\* succeeds with an empty page, hasMore = false and the cursor that was set
\* as input; every later call of the loop yields the same token and an
\* empty page again.
C6_IdempotentExhaustion ==
    pc = "got" =>
        LET k == Len(pages)
        IN  /\ Remaining = <<>> =>
                /\ Exhausted(k)
                /\ pages[k].result = <<>>
                /\ ~pages[k].hasMore
                /\ pages[k].cursor = cursor
            /\ \A j \in 1..(k - 1) :
                   Exhausted(j) =>
                       /\ Exhausted(k)
                       /\ pages[k].result = <<>>
                       /\ ~pages[k].hasMore
                       /\ pages[k].cursor = pages[j].cursor

\* Two calls in a row behind the last document, with a cursor of an earlier
\* page.
C6_Witness ==
    /\ pc = "got" /\ Len(pages) >= 3
    /\ Exhausted(Len(pages) - 1) /\ Exhausted(Len(pages))
    /\ pages[Len(pages) - 2].result # <<>>
    /\ cursor # <<>>
    /\ pages[Len(pages)].cursor = cursor

\* The configuration of TestMinQuery: the eight users, seven of them in the
\* US, Sort("name", "_id"), Limit(3)
TestScenario ==
    /\ db = TestUsers
    /\ sort = MkD(<<DocElem(F_name, 1), DocElem(F_id, 1)>>)
    /\ limit = TestLimit

\* Call k of the loop returned these documents and this hasMore
PageIs(k, docs, more) ==
    Len(pages) >= k =>
        /\ pages[k].err = "nil"
        /\ pages[k].result = docs
        /\ pages[k].hasMore = more

\* C7: in the scenario four calls in a row yield the documents ranked 1-3
\* with hasMore, ranked 4-6 with hasMore, ranked 7 without hasMore, and an
\* empty page without hasMore and with the cursor of the third call.
C7_Scenario ==
    TestScenario =>
        /\ PageIs(1, SubSeq(TestUsers, 2, 4), TRUE)
        /\ PageIs(2, SubSeq(TestUsers, 5, 7), TRUE)
        /\ PageIs(3, SubSeq(TestUsers, 8, 8), FALSE)
        /\ PageIs(4, <<>>, FALSE)
        /\ Len(pages) >= 4 => pages[4].cursor = pages[3].cursor

\* The scenario after its fourth call.
C7_Witness ==
    /\ TestScenario /\ Len(pages) >= 4
    /\ pages[3].cursor # <<>>

DecodeErrors ==
    {"base64: illegal data", "hex: invalid byte", "bson: corrupted document"}

\* C8: Cursor(token) with a token the codec cannot decode stores the
\* error; the next All fails with that error, sends no command and leaves
\* the caller's container as it was.
C8_DeferredDecodeError ==
    /\ cursor \in {InvalidToken, ValidBase64ButInvalidCursor} =>
           cursorErr \in DecodeErrors /\ min.isNil
    /\ (out.called /\ cursorErr # "nil") =>
           /\ out.err = cursorErr
           /\ ~out.sent /\ out.cmd = NoCmd
           /\ out.result = out.prev
           /\ out.cursor = <<>> /\ ~out.hasMore

\* All called after Cursor("(INVALID)") with a container that held
\* documents.
C8_Witness ==
    /\ cursor = InvalidToken
    /\ out.called /\ out.err = "base64: illegal data"
    /\ out.prev # <<>>

\* With the empty token set there is no boundary and no stored error, and
\* All sends a command without min and skip that starts at the first
\* document of the result set.
StartsFromScratch ==
    cursor = <<>> =>
        /\ min.isNil /\ cursorErr = "nil"
        /\ out.called =>
               /\ out.err \notin DecodeErrors
               /\ out.sent
               /\ ~Has(out.cmd, "min") /\ ~Has(out.cmd, "skip")
               /\ out.err = "nil" =>
                      out.firstBatch =
                          IF limit > 0 THEN Take(Expected, limit + 1)
                          ELSE Expected

C10_Unbounded ==
    (out.called /\ out.sent /\ limit <= 0) =>
        /\ ~Has(out.cmd, "limit") /\ ~Has(out.cmd, "batchSize")
        /\ out.err = "nil" =>
               /\ out.result = out.firstBatch
               /\ ~out.hasMore

\* A batch of several documents delivered whole under a negative limit.
C10_Witness ==
    /\ Succeeded /\ limit < 0
    /\ Len(out.firstBatch) > MaxLimit
    /\ out.result = out.firstBatch

----------------------------------------------------------------------------
(* C11: query reuse *)

\* The inputs of the call that has just been made are those of the call
\* before it: same cursor fields, same reachability of the database
\* (the query object and the collection are compared by the step itself).
SameCallAgain ==
    /\ out.called /\ out'.called
    /\ out'.cursorFields = out.cursorFields
    /\ out'.netOk = out.netOk

\* C11: a call of All, successful or failed, leaves filter, sort,
\* projection, limit, stored cursor token, seek boundary, codec and
\* deferred error as they were; and a call of All that follows a call of
\* All with nothing in between returns the same error, cursor and hasMore
\* and, when it succeeds, the same page.
C11_QueryReuse ==
    [][out'.called =>
          /\ UNCHANGED <<db, filter, sort, projection, limit, cursor, min,
                         cursorCodec, cursorErr>>
          /\ SameCallAgain =>
                 /\ out'.err = out.err
                 /\ out'.cursor = out.cursor
                 /\ out'.hasMore = out.hasMore
                 /\ out'.err = "nil" => out'.result = out.result]_vars

\* A page and a cursor have been returned into a container that held
\* something else, and the query still holds the token it was given
\* rather than the one it returned.
C11_Witness ==
    /\ Succeeded
    /\ out.prev # <<>> /\ out.result # out.prev
    /\ out.cursor # <<>> /\ cursor # <<>> /\ out.cursor # cursor

----------------------------------------------------------------------------
(* C12: the round trip of the codec *)

\* The entry that went into CreateCursor
Encoded == pages[1].cursorData

\* A value the serialization holds as it is: an int within 32 bits, a
\* string, a time of whole milliseconds in UTC
Exact(value) ==
    /\ value.t = "int" => value.v >= Int32Min /\ value.v <= Int32Max
    /\ value.t = "time" => value.sub = 0 /\ value.loc = "UTC"

\* What a value comes back as: itself when exact; another int as the
\* int64 of the same number; another time as the same instant cut to
\* whole milliseconds, in UTC.
ComesBackAs(value) ==
    IF Exact(value) THEN value
    ELSE IF value.t = "int" THEN Val("int64", value.v)
    ELSE Date(value.v, 0, "UTC")

----------------------------------------------------------------------------
(* C13: the default codec rejects what is no token *)

\* The string has a character of one of these classes
HasChar(c, classes) == \E i \in 1..Len(c) : c[i][1] \in classes

\* The default codec has just parsed the string now in cursor
ParsedByDefault == pc = "parsed" /\ cursorCodec = DefaultCursorCodec

\* C13 as stated: ParseCursor returns an error for every string that
\* contains a character outside the URL-safe base64 alphabet, and for
\* every string that is valid in that alphabet but whose decoded bytes
\* are not a well-formed serialized tuple.
C13_AsStated ==
    ParsedByDefault =>
        /\ HasChar(cursor, {"other", "newline"}) => cursorErr # "nil"
        /\ (~HasChar(cursor, {"other", "newline"})
                /\ ~WellFormed(Base64Decode(cursor).data)) => cursorErr # "nil"

\* C13: ParseCursor returns an error for every string that contains a
\* character outside the URL-safe base64 alphabet other than a carriage
\* return or a line feed, and for every string without such a character
\* whose decoded bytes (those of its characters other than carriage
\* returns and line feeds) are not a well-formed serialized tuple.
C13_Rejects ==
    ParsedByDefault =>
        /\ HasChar(cursor, {"other"}) => cursorErr # "nil"
        /\ (~HasChar(cursor, {"other"})
                /\ ~WellFormed(Base64Decode(cursor).data)) => cursorErr # "nil"

\* A string of the base64 alphabet that is no serialized tuple has been
\* refused.
C13_Witness ==
    /\ ParsedByDefault
    /\ cursor = ValidBase64ButInvalidCursor
    /\ cursorErr = "bson: corrupted document"

----------------------------------------------------------------------------
(* C14: a failure of the database *)

\* What the database answers to the command of the last call
Reply == Run(db, out.cmd, out.netOk)

\* The last call sent a command and the database failed it
DbFailed == out.called /\ out.sent /\ Reply.err # "nil"

\* C14: when the database command fails, All returns that same error, has
\* run one command only, has not called the codec's CreateCursor, and the
\* caller's container holds what it held before.
C14_DbFailurePropagates ==
    DbFailed =>
        /\ out.err = Reply.err
        /\ out.runs = 1
        /\ out.encodes = 0
        /\ out.result = out.prev

\* The database has refused the command for its projection, as in the
\* test; the call asked for a cursor and the container was not empty.
C14_Witness ==
    /\ DbFailed
    /\ out.netOk /\ projection = InvalidSelector
    /\ out.err = "command failed"
    /\ out.cursorFields # <<>> /\ out.prev # <<>>

----------------------------------------------------------------------------
(* C15: a failure of the codec's CreateCursor *)

\* The last call reached CreateCursor, which failed
EncodeFailed ==
    /\ out.called /\ out.encodes = 1
    /\ CreateCursor(cursorCodec, out.cursorData).err # "nil"

\* The documents of the page of the last call
PageDocs ==
    IF out.hasMore THEN SubSeq(out.firstBatch, 1, Len(out.firstBatch) - 1)
    ELSE out.firstBatch

\* C15 as stated: when CreateCursor fails during All, All returns that
\* error and the page's documents have been decoded into the caller's
\* container before the error is returned.
C15_AsStated ==
    EncodeFailed =>
        /\ out.err = CreateCursor(cursorCodec, out.cursorData).err
        /\ out.result = PageDocs

\* C15: when CreateCursor fails during All, All returns that error and
\* the caller's container holds what it held before: no document of the
\* page has been decoded into it.  Unlike the deferred decode-error case,
\* the command has been sent and answered.
C15_EncodeFailure ==
    /\ EncodeFailed =>
          /\ out.err = CreateCursor(cursorCodec, out.cursorData).err
          /\ out.result = out.prev
          /\ out.sent /\ out.runs = 1 /\ out.firstBatch # <<>>
    /\ (out.called /\ cursorErr # "nil") =>
          /\ out.result = out.prev
          /\ ~out.sent /\ out.runs = 0 /\ out.encodes = 0

\* CreateCursor of the test codec has failed on a page of documents, the
\* caller's container holding other documents.
C15_Witness ==
    /\ EncodeFailed
    /\ out.err = "testErrValue"
    /\ out.prev # <<>> /\ PageDocs # <<>> /\ PageDocs # out.prev

----------------------------------------------------------------------------
(* C16: what Sort stores *)

\* The arguments of the last call of Sort that are not the empty string
GivenFields == SelectSeq(pages[1], LAMBDA field : field # <<>>)

\* C16: after Sort(fields), whatever the sort specification was before,
\* the sort specification has one entry per non-empty field, in the given
\* order: a field that starts with '-' is stored without that character as
\* descending (-1), a field that starts with '+' without that character as
\* ascending (1), any other field as it is, ascending.
C16_SortSemantics ==
    pc = "sorted" =>
        /\ ~sort.isNil
        /\ Len(sort.d) = Len(GivenFields)
        /\ \A i \in 1..Len(GivenFields) :
              LET field == GivenFields[i]
              IN  /\ field[1] = "-" =>
                         sort.d[i] = DocElem(SubSeq(field, 2, Len(field)), -1)
                  /\ field[1] = "+" =>
                         sort.d[i] = DocElem(SubSeq(field, 2, Len(field)), 1)
                  /\ field[1] \notin {"+", "-"} => sort.d[i] = DocElem(field, 1)

\* Sort("", "-name") has been called, leaving name descending alone.
C16_Witness ==
    /\ pc = "sorted"
    /\ pages[1] = << <<>>, <<"-", "name">> >>
    /\ sort = MkD(<<DocElem(F_name, -1)>>)

----------------------------------------------------------------------------
(* C17: the entry the cursor is made from *)

\* The document of the batch the cursor of the last call is derived from
DefiningDoc ==
    out.firstBatch[Len(out.firstBatch) - (IF out.hasMore THEN 1 ELSE 0)]

\* The last call had documents in its batch and cursor fields, and it
\* returned without error
DerivedCursor ==
    /\ out.called /\ out.err = "nil"
    /\ out.firstBatch # <<>> /\ out.cursorFields # <<>>

\* C17: with a non-empty batch and non-empty cursor fields, the entry
\* passed to the codec has one element per cursor field, in the given
\* order; its name is the field without a leading '+' or '-', its value
\* what the defining document holds under that name (null when it holds
\* nothing).  A call that returns without error has passed such an entry.
C17_CursorFieldDerivation ==
    /\ DerivedCursor => out.encodes = 1
    /\ (out.called /\ out.encodes = 1) =>
          /\ out.firstBatch # <<>> /\ out.cursorFields # <<>>
          /\ Len(out.cursorData) = Len(out.cursorFields)
          /\ \A i \in 1..Len(out.cursorFields) :
                LET cfd == out.cursorFields[i]
                    name == IF cfd[1] \in {"+", "-"}
                            THEN SubSeq(cfd, 2, Len(cfd)) ELSE cfd
                IN  /\ out.cursorData[i].Name = name
                    /\ name \in DOMAIN DefiningDoc =>
                           out.cursorData[i].Value = DefiningDoc[name]
                    /\ name \notin DOMAIN DefiningDoc =>
                           out.cursorData[i].Value = Nil

\* A cursor has been derived for the fields "-name", "+_id" from a
\* document that has both.
C17_Witness ==
    /\ DerivedCursor
    /\ out.cursorFields = << <<"-", "name">>, <<"+", "_id">> >>
    /\ {F_name, F_id} \subseteq DOMAIN DefiningDoc
    /\ out.cursorData = <<DocElem(F_name, DefiningDoc[F_name]),
                          DocElem(F_id, DefiningDoc[F_id])>>
    /\ out.hasMore

----------------------------------------------------------------------------
(* C18: paging with a projection *)

\* The projection restricts the returned fields and keeps every sort
\* field (the cursor fields of the loop); _id is returned unless excluded
KeepsCursorFields ==
    /\ projection.kind = "fields"
    /\ \A i \in 1..Len(sort.d) :
          sort.d[i].Name \in projection.fields \cup {F_id}

\* The projection restricts the returned fields and drops a sort field
DropsCursorField ==
    /\ projection.kind = "fields"
    /\ \E i \in 1..Len(sort.d) :
          sort.d[i].Name \notin projection.fields \cup {F_id}

\* The k-th page of size L as the projection returns it
ProjectedPageOf(k, L) ==
    LET page == PageOf(k, L)
    IN  [i \in 1..Len(page) |->
            [f \in (DOMAIN page[i]) \cap (projection.fields \cup {F_id}) |->
                page[i][f]]]

\* The document of the collection the defining document was projected from
StoredDefiningDoc ==
    CHOOSE d \in Range(db) : d[F_id] = DefiningDoc[F_id]

----------------------------------------------------------------------------
(* C19: the codec is pluggable *)

\* The last call of All, made again with the codec cc in place of the
\* query's codec and everything else as it is
WithCodec(cc) ==
    AllCall(db, [MQ EXCEPT !.cursorCodec = cc], out.prev, out.cursorFields,
            out.netOk)

\* A step that sets another codec leaves the stored token, the seek
\* boundary, the deferred error and the rest of the configuration alone
CodecFrame ==
    [][cursorCodec' # cursorCodec =>
          UNCHANGED <<db, filter, sort, projection, limit, cursor, min,
                      cursorErr>>]_vars

\* A step that stores another token, boundary or error has decoded the
\* token with the codec set at that time
DecodesWithCurrent ==
    [][<<cursor, min, cursorErr>>' # <<cursor, min, cursorErr>> =>
          /\ cursorCodec' = cursorCodec
          /\ cursor' # <<>> =>
                 /\ ParseCursor(cursorCodec, cursor').err = cursorErr'
                 /\ ParseCursor(cursorCodec, cursor').cursorData = min']_vars

\* The cursor a call returns for a non-empty batch was made by the codec
\* set at that time
EncodesWithCurrent ==
    (out.called /\ out.encodes = 1) =>
        /\ out.cursor = CreateCursor(cursorCodec, out.cursorData).cursor
        /\ out.err = CreateCursor(cursorCodec, out.cursorData).err

\* C19 as stated, in what it says of All: All run with a different codec
\* on otherwise identical configuration returns the same page of
\* documents (whichever codec that is).
C19_AsStated ==
    (out.called /\ out.err = "nil") =>
        \A cc \in Codecs : WithCodec(cc).result = out.result

\* C19: CursorCodec changes only which codec later Cursor calls decode
\* with and which codec All encodes the next cursor with; the stored
\* token, the seek boundary and the deferred error stay as they are; and
\* All run with a different codec on otherwise identical configuration
\* returns the same page of documents and the same hasMore unless that
\* codec's CreateCursor fails, in which case All returns its error and
\* leaves the container as it was.
C19_PluggableCodec ==
    /\ CodecFrame
    /\ DecodesWithCurrent
    /\ [](EncodesWithCurrent)
    /\ []((out.called /\ out.err = "nil") =>
             \A cc \in Codecs :
                 LET other == WithCodec(cc)
                     made == CreateCursor(cc, out.cursorData)
                 IN  /\ (out.encodes = 0 \/ made.err = "nil") =>
                            /\ other.err = "nil"
                            /\ other.result = out.result
                            /\ other.hasMore = out.hasMore
                            /\ other.cmd = out.cmd
                     /\ (out.encodes = 1 /\ made.err # "nil") =>
                            /\ other.err = made.err
                            /\ other.result = out.prev)

\* With the test codec set after a token of the default codec was stored,
\* All has returned a page and a cursor of the test codec, the boundary
\* still being the one the default codec decoded.
C19_Witness ==
    /\ Succeeded
    /\ cursorCodec = TestCodec(FALSE)
    /\ cursor # <<>> /\ cursor[1][1] = "b64" /\ ~min.isNil
    /\ out.result # <<>>
    /\ out.cursor # <<>> /\ out.cursor[1][1] = "hex"

----------------------------------------------------------------------------
(* C20: paging by nested index paths *)

\* C20: when the sort fields and cursor fields name a path into a
\* sub-document or an array, successive calls of All with Limit(L), each
\* fed the cursor the call before returned, yield consecutive pages: the
\* k-th call returns the documents ranked L(k-1)+1..Lk of the sorted
\* result and nothing once these are exhausted.
C20_NestedPaths ==
    (pc \in {"ready", "got"} /\ limit > 0 /\ UniqueKeys) =>
        \A k \in 1..Len(pages) :
            /\ pages[k].err = "nil"
            /\ pages[k].result = PageOf(k, limit)

----------------------------------------------------------------------------
(* C21: one round trip *)

\* C21: a call of All on a query without a deferred cursor error has run
\* exactly one database command, whether it succeeded or failed and
\* whatever came back; a call on a query with a deferred cursor error has
\* run none.
C21_SingleRoundTrip ==
    out.called =>
        /\ cursorErr = "nil" => out.runs = 1 /\ out.sent /\ out.cmd # NoCmd
        /\ cursorErr # "nil" => out.runs = 0 /\ ~out.sent /\ out.cmd = NoCmd

\* A call has failed because the database could not be reached, after one
\* command.
C21_Witness ==
    /\ out.called /\ cursorErr = "nil"
    /\ ~out.netOk /\ out.err = "network error"
    /\ out.runs = 1

----------------------------------------------------------------------------
(* Specification: two goroutines on one query object, one calling         *)
(* Cursor(c) and one calling All, with no synchronisation between them.   *)
(* Each goroutine advances one statement at a time.  pages holds the      *)
(* locals of the two calls in progress: pages[1] those of All, pages[2]   *)
(* the argument of Cursor.  pc holds the position of each goroutine.      *)
(* A field read while the other goroutine is at the statement that        *)
(* writes it is a data race: the read yields the old value, the new       *)
(* value or a mix of the words of both.                                   *)

ConcUsers == ConfigUsers

ConcTokens ==
    { CreateCursor(DefaultCursorCodec,
                   CursorData(ConcUsers[i], <<F_name, F_id>>)).cursor :
        i \in 1..Len(ConcUsers) }
    \cup {EmptyToken, InvalidToken}

\* The locals of All: the caller's container and cursor fields, the
\* command built, the reply; alone is false once a step of Cursor has
\* been taken during the call.
AllFrame(prev, cf, cmd, res, alone) ==
    [prev |-> prev, cursorFields |-> cf, cmd |-> cmd, res |-> res,
     alone |-> alone]

NoFrame == AllFrame(<<>>, <<>>, NoCmd, [err |-> "nil", firstBatch |-> <<>>],
                    TRUE)

InitConcurrent ==
    /\ New(ConcUsers, FilterEq(F_country, Str("US")))
    /\ pages = <<NoFrame, [c |-> EmptyToken]>>
    /\ pc = [all |-> "new", cur |-> "idle"]

\* mq.Sort("name", "_id") before the object is shared
ConcSort ==
    /\ pc.all = "new"
    /\ Sort(<<F_name, F_id>>)
    /\ pc' = [pc EXCEPT !.all = "sorted"]
    /\ UNCHANGED pages

\* mq.Limit(n) before the object is shared
ConcLimit ==
    /\ pc.all = "sorted"
    /\ \E n \in 1..MaxLimit : Limit(n)
    /\ pc' = [pc EXCEPT !.all = "idle"]
    /\ UNCHANGED pages

\* A string of n bytes starting where s starts: the bytes of s, then
\* whatever follows them in memory.
Resized(s, n) ==
    [i \in 1..n |-> IF i <= Len(s) THEN s[i] ELSE <<"other", JunkBytes>>]

\* What a read of mq.cursor may yield: a string is a pointer and a length,
\* and a read racing with the assignment of line 132 may take each word
\* from either string.
CursorSeen ==
    IF pc.cur = "storing"
    THEN {cursor, pages[2].c, Resized(cursor, Len(pages[2].c)),
          Resized(pages[2].c, Len(cursor))}
    ELSE {cursor}

\* What a read of mq.cursorErr may yield while line 134 or 136 assigns it
CursorErrSeen ==
    IF pc.cur = "parsing"
    THEN {cursorErr, ParsedCursor(cursorCodec, pages[2].c).err}
    ELSE {cursorErr}

\* What a read of mq.min may yield while line 134 or 136 assigns it, when
\* the words read belong to one slice
MinSeen ==
    IF pc.cur = "parsing"
    THEN {min, ParsedCursor(cursorCodec, pages[2].c).cursorData}
    ELSE {min}

\* Cursor(c) is entered
CursorEnter ==
    /\ pc.all \notin {"new", "sorted"}
    /\ pc.cur = "idle"
    /\ \E c \in ConcTokens :
         pages' = <<[pages[1] EXCEPT !.alone = @ /\ pc.all = "idle"],
                    [c |-> c]>>
    /\ pc' = [pc EXCEPT !.cur = "storing"]
    /\ UNCHANGED <<db, mqvars, out>>

\* mq.cursor = c (line 132)
CursorStore ==
    /\ pc.cur = "storing"
    /\ cursor' = pages[2].c
    /\ pages' = [pages EXCEPT ![1].alone = @ /\ pc.all = "idle"]
    /\ pc' = [pc EXCEPT !.cur = "parsing"]
    /\ UNCHANGED <<db, filter, sort, projection, limit, cursorCodec,
                   cursorErr, min, testError, out>>

\* mq.min, mq.cursorErr = ... (lines 133 to 137) and the return
CursorParse ==
    /\ pc.cur = "parsing"
    /\ min' = ParsedCursor(cursorCodec, pages[2].c).cursorData
    /\ cursorErr' = ParsedCursor(cursorCodec, pages[2].c).err
    /\ pages' = [pages EXCEPT ![1].alone = @ /\ pc.all = "idle"]
    /\ pc' = [pc EXCEPT !.cur = "idle"]
    /\ UNCHANGED <<db, filter, sort, projection, limit, cursor, cursorCodec,
                   testError, out>>

\* All is entered: if mq.cursorErr != nil { return "", mq.cursorErr, false }
\* (lines 182 to 184)
AllCheck ==
    /\ pc.all = "idle"
    /\ \E prev \in Containers, e \in CursorErrSeen :
         LET cf == <<F_name, F_id>>
         IN  IF e # "nil"
             THEN /\ out' = Outcome(cf, prev, prev, <<>>, e, FALSE, FALSE,
                                    NoCmd, <<>>)
                  /\ UNCHANGED <<pages, pc>>
             ELSE /\ pages' = [pages EXCEPT
                                 ![1] = AllFrame(prev, cf, NoCmd, NoFrame.res,
                                                 pc.cur = "idle")]
                  /\ pc' = [pc EXCEPT !.all = "checked"]
                  /\ out' = NoCall
    /\ UNCHANGED <<db, mqvars>>

\* The command is built (lines 189 to 216), mq.min being read at line 210.
\* A read of mq.min that mixes the words of two slices stops the program.
AllBuild ==
    /\ pc.all = "checked"
    /\ \/ \E m \in MinSeen :
            /\ pages' = [pages EXCEPT ![1].cmd = BuildCmd([MQ EXCEPT !.min = m])]
            /\ pc' = [pc EXCEPT !.all = "built"]
            /\ UNCHANGED out
       \/ /\ pc.cur = "parsing"
          /\ out' = Outcome(pages[1].cursorFields, pages[1].prev,
                            pages[1].prev, <<>>, "fatal error", FALSE, FALSE,
                            NoCmd, <<>>)
          /\ pc' = [pc EXCEPT !.all = "idle"]
          /\ UNCHANGED pages
    /\ UNCHANGED <<db, mqvars>>

\* mq.db.Run(cmd, &res) (line 229)
AllRun ==
    /\ pc.all = "built"
    /\ pages' = [pages EXCEPT ![1].res = Run(db, pages[1].cmd, TRUE)]
    /\ pc' = [pc EXCEPT !.all = "ran"]
    /\ UNCHANGED <<db, mqvars, out>>

\* The rest of All (lines 229 to 277), mq.cursor being read at line 268
AllReturn ==
    /\ pc.all = "ran"
    /\ \E c \in CursorSeen :
         out' = AllReply([MQ EXCEPT !.cursor = c], pages[1].prev,
                         pages[1].cursorFields, TRUE, pages[1].cmd,
                         pages[1].res)
    /\ pc' = [pc EXCEPT !.all = "idle"]
    /\ UNCHANGED <<db, mqvars, pages>>

NextConcurrent ==
    ConcSort \/ ConcLimit \/ CursorEnter \/ CursorStore \/ CursorParse
        \/ AllCheck \/ AllBuild \/ AllRun \/ AllReturn

SpecConcurrent == InitConcurrent /\ [][NextConcurrent]_vars

----------------------------------------------------------------------------
(* C22: Cursor and All are not atomic with respect to each other *)

\* The token a call has returned is the token of the boundary its command
\* was built from: both absent, or the token decodes to the command's min.
TokenOfBoundary(o) ==
    IF Has(o.cmd, "min")
    THEN /\ ParsedCursor(cursorCodec, o.cursor).err = "nil"
         /\ ~ParsedCursor(cursorCodec, o.cursor).cursorData.isNil
         /\ ParsedCursor(cursorCodec, o.cursor).cursorData.d = o.cmd["min"]
    ELSE o.cursor = <<>>

\* All returns without error on an empty batch
ReturnsEmptyBatch ==
    /\ pc.all = "ran" /\ pc'.all = "idle"
    /\ out'.err = "nil" /\ out'.firstBatch = <<>>

\* C22: Cursor and All on one object are not atomic with respect to each
\* other.  On an empty batch All returns what mq.cursor holds when it
\* returns, not the token its command was built from: the returned token
\* is the token of the command's boundary whenever no step of Cursor was
\* taken during the call, and otherwise it is any value a read of
\* mq.cursor can yield at the return, which after a Cursor(t2) that ran
\* between the building of the command and the return is t2.
C22_NotAtomic ==
    /\ [](out.called /\ out.err = "nil" /\ out.firstBatch = <<>>
            /\ pc.all = "idle" /\ pages[1].alone
          => TokenOfBoundary(out))
    /\ [][ReturnsEmptyBatch => out'.cursor \in CursorSeen]_vars
    /\ [][ReturnsEmptyBatch /\ pc.cur # "storing" /\ ~pages[1].alone
          => out'.cursor = cursor]_vars

\* All has returned token t2 on an empty batch although its command
\* carried the boundary of another token t1: Cursor(t2) has run to its end
\* after the command was built.
C22_Witness ==
    /\ out.called /\ out.err = "nil" /\ out.firstBatch = <<>>
    /\ pc = [all |-> "idle", cur |-> "idle"]
    /\ out.cursor = cursor /\ cursor \in ConcTokens /\ cursorErr = "nil"
    /\ Has(out.cmd, "min") /\ ~min.isNil
    /\ out.cmd["min"] # min.d
    /\ ~TokenOfBoundary(out)

----------------------------------------------------------------------------
(* C23: the caller's container is replaced *)

\* The documents the database returns for the command of the last call,
\* without the look-ahead document
ThisPage ==
    IF limit > 0 THEN Take(Reply.firstBatch, Min2(limit, Len(Reply.firstBatch)))
    ELSE Reply.firstBatch

\* C23: after a successful All the caller's container holds exactly the
\* documents of this page, none when the batch is empty, whatever it held
\* before: All overwrites the container and does not append to it, on the
\* look-ahead path and on the plain path.
C23_ContainerReplaced ==
    Succeeded =>
        /\ out.result = ThisPage
        /\ out.firstBatch = <<>> => out.result = <<>>

\* A page of one document was decoded by allButLast into a container that
\* held two.
C23_Witness ==
    /\ Succeeded /\ out.hasMore
    /\ Len(out.firstBatch) = limit + 1
    /\ Len(out.prev) > Len(out.result)
    /\ out.result = <<out.firstBatch[1]>>

----------------------------------------------------------------------------
(* The earlier version of All, which returns the cursor and the error     *)
(* only (src/unnamed/part_002), in the paging loop of its test            *)
(* (src/unnamed/part_001).                                                *)

\* The find command of the earlier All: the limit is sent as it is, and
\* with a boundary the command carries {Name: "skip", Value: 0}.
BuildCmdV1(mq) ==
    ("find" :> "users") @@ ("limit" :> mq.limit)
    @@ ("batchSize" :> mq.limit) @@ ("singleBatch" :> TRUE)
    @@ (IF mq.filter.kind # "nil" THEN ("filter" :> mq.filter) ELSE <<>>)
    @@ (IF ~mq.sort.isNil THEN ("sort" :> mq.sort.d) ELSE <<>>)
    @@ (IF mq.projection.kind # "nil"
        THEN ("projection" :> mq.projection) ELSE <<>>)
    @@ (IF ~mq.min.isNil
        THEN ("skip" :> 0) @@ ("min" :> mq.min.d) ELSE <<>>)

\* The earlier All once the database has answered res to cmd: the cursor
\* is made from the last document of the batch, with doc[cf] for each
\* cursor field as given.
AllReplyV1(mq, prev, cursorFields, cmd, res) ==
    LET firstBatch == res.firstBatch
        doc == firstBatch[Len(firstBatch)]
        cursorData == [i \in 1..Len(cursorFields) |->
                         DocElem(cursorFields[i], Lookup(doc, cursorFields[i]))]
        made == CreateCursor(mq.cursorCodec, cursorData)
        Ret(r, cur, err) ==
            Outcome(cursorFields, prev, r, cur, err, FALSE, TRUE, cmd,
                    firstBatch)
    IN  IF res.err # "nil" THEN Ret(prev, <<>>, res.err)
        ELSE IF Len(firstBatch) = 0
             THEN Ret(SetSlice(prev, IterAll(firstBatch)), mq.cursor, "nil")
        ELSE IF Len(cursorFields) = 0
             THEN Ret(SetSlice(prev, IterAll(firstBatch)), <<>>, "nil")
        ELSE IF made.err # "nil" THEN Ret(prev, made.cursor, made.err)
        ELSE Ret(SetSlice(prev, IterAll(firstBatch)), made.cursor, "nil")

\* The earlier minQuery.All
AllCallV1(docs, mq, prev, cursorFields) ==
    IF mq.cursorErr # "nil"
    THEN Outcome(cursorFields, prev, prev, <<>>, mq.cursorErr, FALSE, FALSE,
                 NoCmd, <<>>)
    ELSE AllReplyV1(mq, prev, cursorFields, BuildCmdV1(mq),
                    Run(docs, BuildCmdV1(mq), TRUE))

\* cursor, err = mq.All(&result, cursorFields...)
PagerAllV1 ==
    /\ pc = "ready"
    /\ Len(pages) < MaxCalls
    /\ out' = AllCallV1(db, MQ,
                        IF pages = <<>> THEN <<>> ELSE pages[Len(pages)].result,
                        SortFieldNames)
    /\ pages' = Append(pages, out')
    /\ pc' = "got"
    /\ UNCHANGED <<db, mqvars>>

NextPagingV1 == PagerSort \/ PagerLimit \/ PagerAllV1 \/ PagerCursor

SpecPagingV1 == InitPaging /\ [][NextPagingV1]_vars

----------------------------------------------------------------------------
(* C24: the earlier All and the boundary document *)

\* C24: in the earlier two-result version of All, when a seek boundary is
\* set the command skips the boundary document: the first document of the
\* next page is the successor, in the filtered and sorted result, of the
\* last document of the previous page, and not that document itself.
C24_SkipsBoundaryV1 ==
    (limit > 0 /\ UniqueKeys) =>
        \A k \in 2..Len(pages) :
            (/\ pages[k - 1].err = "nil" /\ pages[k].err = "nil"
             /\ pages[k - 1].result # <<>> /\ pages[k].result # <<>>)
            => /\ Has(pages[k].cmd, "min") /\ pages[k].cmd["skip"] = 1
               /\ pages[k].result[1] # Last(pages[k - 1].result)
               /\ RankOf(pages[k].result[1])
                    = RankOf(Last(pages[k - 1].result)) + 1

----------------------------------------------------------------------------
(* C25: the paging loop terminates *)

\* ceil(n / l)
Ceil(n, l) == (n + l - 1) \div l

\* The loop 'All; while hasMore: Cursor(cursor); All' over N > 0 matching
\* documents sees hasMore = false first at its ceil(N / L)-th call, and
\* documents remain after every page reported with hasMore = true.
Terminates ==
    \A k \in 1..Len(pages) :
        StillPaging(k) =>
            /\ pages[k].err = "nil"
            /\ k <= Ceil(Len(Expected), limit)
            /\ pages[k].hasMore <=> k < Ceil(Len(Expected), limit)
            /\ pages[k].hasMore =>
                   /\ pages[k].result # <<>>
                   /\ RankOf(Last(pages[k].result)) < Len(Expected)

----------------------------------------------------------------------------
(* C26: returned cursors can be fed back *)

\* The stored boundary and error are what the codec now set makes of the
\* stored cursor, as they are when the codec was not changed since
\* Cursor was called.
CodecUnchanged ==
    /\ ParsedCursor(cursorCodec, cursor).cursorData = min
    /\ ParsedCursor(cursorCodec, cursor).err = cursorErr

\* C26: with the codec left unchanged, the cursor a successful All returns
\* is empty or a token Cursor decodes without error, so that the next All
\* after Cursor(returned cursor) does not fail with a decode error.
C26_CursorReusable ==
    (Succeeded /\ CodecUnchanged) =>
        /\ out.cursor # <<>> => ParseCursor(cursorCodec, out.cursor).err = "nil"
        /\ AllCall(db, [MQ EXCEPT
                          !.cursor = out.cursor,
                          !.min = ParsedCursor(cursorCodec, out.cursor).cursorData,
                          !.cursorErr = ParsedCursor(cursorCodec, out.cursor).err],
                   out.result, out.cursorFields, TRUE).err \notin DecodeErrors

\* A call has returned a token the codec made of the page's last document,
\* and another than the one the query holds.
C26_Witness ==
    /\ Succeeded /\ CodecUnchanged
    /\ out.encodes = 1 /\ out.cursor # <<>> /\ out.cursor # cursor
    /\ ~ParseCursor(cursorCodec, out.cursor).cursorData.isNil

----------------------------------------------------------------------------
(* C27: the deferred cursor error stays until the next Cursor call *)

\* The step is a call of Cursor: it stores a token with what the codec
\* makes of it and leaves the rest of the query alone.
CursorStep ==
    /\ cursor' = <<>> => min'.isNil /\ cursorErr' = "nil"
    /\ cursor' # <<>> =>
           /\ min' = ParseCursor(cursorCodec, cursor').cursorData
           /\ cursorErr' = ParseCursor(cursorCodec, cursor').err
    /\ UNCHANGED <<sort, projection, limit, cursorCodec, testError>>

\* C27: a deferred cursor-decode error persists until the next Cursor
\* call.  While it is stored every All fails with it and sends nothing,
\* whichever Sort, Select, Limit or CursorCodec calls came between; the
\* only steps that change or remove it are calls of Cursor, and a call of
\* Cursor with the empty token or a token that decodes removes it.
C27_ErrorPersists ==
    /\ []((out.called /\ cursorErr \in DecodeErrors) =>
              out.err = cursorErr /\ ~out.sent /\ out.result = out.prev)
    /\ [][(cursorErr \in DecodeErrors /\ cursorErr' # cursorErr)
             => CursorStep]_vars
    /\ [][(cursorErr \in DecodeErrors /\ cursor' # cursor
             /\ (cursor' = <<>> \/ ParseCursor(cursorCodec, cursor').err = "nil"))
             => cursorErr' = "nil" /\ cursorCodec' = cursorCodec]_vars

\* All has failed with the error of a token that the codec set since
\* would decode: Cursor stored the error under the default codec and
\* CursorCodec came between it and All.
C27_Witness ==
    /\ out.called /\ out.err = cursorErr /\ cursorErr \in DecodeErrors
    /\ cursorCodec = TestCodec(FALSE)
    /\ ParseCursor(cursorCodec, cursor).err = "nil"
    /\ ~sort.isNil /\ limit > 0

----------------------------------------------------------------------------
(* C28: what each configuration call changes *)

\* C28: each configuration call changes only its own part of the query
\* state.  A step that changes the sort specification changes nothing else
\* of the query, and so for the projection, the limit and the codec; a
\* step that changes the stored token, the seek boundary or the deferred
\* error changes none of the other four; no step changes the filter or
\* the collection given to New.
C28_ConfigFrame ==
    /\ [][sort' # sort =>
            UNCHANGED <<projection, limit, cursorCodec, cursor, min,
                        cursorErr>>]_vars
    /\ [][projection' # projection =>
            UNCHANGED <<sort, limit, cursorCodec, cursor, min, cursorErr>>]_vars
    /\ [][limit' # limit =>
            UNCHANGED <<sort, projection, cursorCodec, cursor, min,
                        cursorErr>>]_vars
    /\ [][cursorCodec' # cursorCodec =>
            UNCHANGED <<sort, projection, limit, cursor, min, cursorErr>>]_vars
    /\ [][<<cursor, min, cursorErr>>' # <<cursor, min, cursorErr>> =>
            UNCHANGED <<sort, projection, limit, cursorCodec>>]_vars
    /\ [][UNCHANGED <<filter, db>>]_vars

\* Every configuration call has changed its part, the filter being the
\* one given to New.
C28_Witness ==
    /\ ~sort.isNil /\ projection # NilValue /\ limit # 0
    /\ cursorCodec # DefaultCursorCodec
    /\ cursor # <<>> /\ ~min.isNil
    /\ filter = FilterEq(F_country, Str("US"))
    /\ db = ConfigUsers

----------------------------------------------------------------------------
(* C29: field names of the sort specification *)

\* C29: after any sequence of Sort calls with any field strings, no entry
\* of the sort specification has an empty field name, fields that consist
\* of a direction marker only ("-", "+") included.
C29_NoEmptySortName ==
    \A i \in 1..Len(sort.d) : sort.d[i].Name # <<>>

----------------------------------------------------------------------------
(* C30: cursor fields with an empty name *)

\* What All leaves when the program stops in it
Panics == {"panic: index out of range"}

\* C30: All returns normally, with a result or an error value, for every
\* list of cursor field names when the batch is non-empty, a list that
\* contains an empty field name included.
C30_ReturnsNormally ==
    (out.called /\ out.firstBatch # <<>>) => out.err \notin Panics

----------------------------------------------------------------------------
(* C31: All without cursor fields *)

\* The command of the call that follows Cursor(c) on the query as it is
CmdAfterCursor(c) ==
    BuildCmd([MQ EXCEPT !.cursor = c,
                        !.min = ParsedCursor(cursorCodec, c).cursorData,
                        !.cursorErr = ParsedCursor(cursorCodec, c).err])

\* C31: when All succeeds and no cursor field names were given, the
\* returned cursor is the empty token for a non-empty batch, whatever the
\* input cursor, and the input cursor for an empty batch; the call that
\* follows Cursor(returned cursor) after a non-empty batch carries no
\* boundary and so starts at the first page again.
C31_NoCursorFields ==
    (Succeeded /\ out.cursorFields = <<>>) =>
        /\ out.firstBatch # <<>> =>
               /\ out.cursor = <<>>
               /\ out.encodes = 0
               /\ ~Has(CmdAfterCursor(out.cursor), "min")
               /\ ~Has(CmdAfterCursor(out.cursor), "skip")
        /\ out.firstBatch = <<>> => out.cursor = cursor

\* A call behind a boundary has returned documents and, no cursor fields
\* given, the empty token.
C31_Witness ==
    /\ Succeeded /\ out.cursorFields = <<>>
    /\ out.firstBatch # <<>>
    /\ cursor # <<>> /\ ~min.isNil /\ Has(out.cmd, "min")
    /\ out.cursor = <<>>

----------------------------------------------------------------------------
(* Specification: a caller who asks for pages as large as the machine     *)
(* integer allows, Limit(math.MaxInt) included.                           *)

BigLimits == {1, MaxLimit, MaxInt - 1, MaxInt}

BigLimit == \E n \in BigLimits : Limit(n) /\ UNCHANGED <<pages, pc>>

NextBigLimit == CfgSort \/ BigLimit \/ CfgCursor \/ CfgAll

SpecBigLimit == InitConfig /\ [][NextBigLimit]_vars

----------------------------------------------------------------------------
(* C32: the arithmetic of the look-ahead *)

\* C32: for every positive limit L of the machine integer type the count
\* All asks for, L + 1, is greater than L, and hasMore is true only if
\* the batch holds more than L documents; for L the largest integer the
\* incremented count does not wrap to a negative value.
C32_LookAheadSound ==
    (out.called /\ out.sent /\ limit > 0) =>
        /\ out.cmd["limit"] > limit
        /\ out.cmd["batchSize"] > limit
        /\ out.hasMore => Len(out.firstBatch) > limit

====
